---- MODULE Spec2Model ----
(***************************************************************************)
(* Model of the ovsx-setup procedure (internal/setup/app.go, Run) and of   *)
(* the world it acts on: the execution search path, the working directory  *)
(* with its .git and .github/workflows entries, and the git index.         *)
(*                                                                         *)
(* Text (templates, flag values, file contents) is a sequence of           *)
(* one-character strings, so that strings.ReplaceAll is modelled by what   *)
(* it does on characters.                                                  *)
(***************************************************************************)
EXTENDS Integers, Sequences, FiniteSets, TLC

(***************************************************************************)
(* Bounds of the model.                                                    *)
(***************************************************************************)
\* Largest number of pieces a template under test is built from (SpecRender).
MaxPieces == 3
\* Largest number of runs of the tool against one repository.
MaxRuns == 2
\* Largest number of workflow files that are special before the first run:
\* already present (writable or read-only) or matched by a .gitignore pattern.
MaxSpecial == 1
MaxFlags == 2

(***************************************************************************)
(* Text.                                                                   *)
(***************************************************************************)
Open == <<"$", "{", "{", " ", "v", "a", "r", "s", ".">>
Close == <<" ", "}", "}">>
PublisherWord == <<"P", "U", "B", "L", "I", "S", "H", "E", "R", "_">>
NameWord == <<"N", "A", "M", "E">>
ExtensionWord == <<"E", "X", "T", "E", "N", "S", "I", "O", "N", "_">>
PathWord == <<"P", "A", "T", "H">>

\* `${{ vars.PUBLISHER_NAME }}`
PublisherPlaceholder == Open \o PublisherWord \o NameWord \o Close
\* `${{ vars.EXTENSION_PATH }}`
ExtensionPlaceholder == Open \o ExtensionWord \o PathWord \o Close

Empty == << >>
Acme == <<"a", "c", "m", "e">>
PkgExt == <<".", "/", "p", "k", "g">>

\* strings.HasPrefix(s[i-1:], old), positions counted from 1.
MatchAt(s, old, i) ==
    /\ i + Len(old) - 1 <= Len(s)
    /\ SubSeq(s, i, i + Len(old) - 1) = old

RECURSIVE IndexFrom(_, _, _)
\* The first position from i on at which old occurs in s, 0 if there is none.
IndexFrom(s, old, i) ==
    IF i + Len(old) - 1 > Len(s) THEN 0
    ELSE IF MatchAt(s, old, i) THEN i
    ELSE IndexFrom(s, old, i + 1)

\* strings.Index(s, old) + 1: the first position at which old occurs, 0 if none.
Index(s, old) == IndexFrom(s, old, 1)

\* strings.Replace(s, old, new, 1) in the place of ReplaceAll: the first
\* occurrence only.
ReplaceAllMutant(s, old, new) ==
    LET i == Index(s, old) IN
    IF i = 0
    THEN s
    ELSE SubSeq(s, 1, i - 1) \o new \o SubSeq(s, i + Len(old), Len(s))

RECURSIVE ReplaceAll(_, _, _)
\* strings.ReplaceAll(s, old, new) for a non-empty old: scan from the left,
\* replace the first occurrence, continue after it.
ReplaceAll(s, old, new) ==
    LET i == Index(s, old) IN
    IF old = new \/ i = 0
    THEN s
    ELSE SubSeq(s, 1, i - 1) \o new
            \o ReplaceAll(SubSeq(s, i + Len(old), Len(s)), old, new)

(***************************************************************************)
(* The fixed names of the procedure.                                       *)
(***************************************************************************)
\* The keys of filesToInstall.
Filenames == {"sync.yml", "release.yml", "auto-tag.yml", "check-version.yml"}

Cwd == "."
DotGit == ".git"
DotGithub == ".github"
\* workflowDir := filepath.Join(".github", "workflows")
workflowDir == ".github/workflows"
\* destPath := filepath.Join(workflowDir, filename)
destPath(filename) == workflowDir \o "/" \o filename

DestPaths == {destPath(f) : f \in Filenames}

\* Paths of the repository that Run has no business with: a workflow of the
\* repository's own next to the four, and a file at the root.
OtherWorkflow == workflowDir \o "/" \o "ci.yml"
Readme == "README.md"
OtherPaths == {OtherWorkflow, Readme}

Paths == {Cwd, DotGit, DotGithub, workflowDir} \cup DestPaths \cup OtherPaths

\* The directory os.MkdirAll and os.WriteFile look a path up in.
Parent(p) ==
    IF p \in DestPaths \cup {OtherWorkflow} THEN workflowDir
    ELSE IF p = workflowDir THEN DotGithub
    ELSE Cwd

(***************************************************************************)
(* The file system: every path is absent, a directory or a regular file;   *)
(* w says whether the invoking user may write to it (for a directory:      *)
(* create entries in it).                                                  *)
(***************************************************************************)
Absent == [kind |-> "absent", w |-> FALSE, data |-> Empty]
Dir(w) == [kind |-> "dir", w |-> w, data |-> Empty]
File(w, data) == [kind |-> "file", w |-> w, data |-> data]
\* A symbolic link that cannot be resolved (it points to itself).
Loop == [kind |-> "loop", w |-> FALSE, data |-> Empty]

IsDir(n) == n.kind = "dir"
Exists(n) == n.kind # "absent"

\* Content of a file that was in the repository before the tool ever ran.
Junk == <<"o", "l", "d">>

\* No entry in the git index.
NoEntry == <<"<none>">>

(***************************************************************************)
(* System calls and external commands, as functions of the world.          *)
(***************************************************************************)
RECURSIVE StatErr(_, _)
\* The error of os.Stat(p): "nil" when the path can be inspected. The path is
\* walked from the working directory: the first component that cannot be
\* inspected gives its error, a component that is there and is not a
\* directory gives ENOTDIR to what lies below it.
StatErr(fs, p) ==
    IF p = Cwd THEN "nil"
    ELSE LET up == StatErr(fs, Parent(p))
         IN  IF up # "nil" THEN up
             ELSE IF ~IsDir(fs[Parent(p)]) THEN "ENOTDIR"
             ELSE IF fs[p].kind = "absent" THEN "ENOENT"
             ELSE IF fs[p].kind = "loop" THEN "ELOOP"
             ELSE "nil"

StatOk(fs, p) == StatErr(fs, p) = "nil"

\* os.IsExist(err) in the place of os.IsNotExist(err).
IsNotExistMutant(err) == err = "EEXIST"

\* os.IsNotExist(err)
IsNotExist(err) == err = "ENOENT"

\* os.Mkdir(p): the parent is a directory the user may write to and p is new.
MkdirOk(fs, p) ==
    /\ IsDir(fs[Parent(p)])
    /\ fs[Parent(p)].w
    /\ ~Exists(fs[p])

\* The file system after a successful os.Mkdir(p, 0755).
Mkdir(fs, p) == [fs EXCEPT ![p] = Dir(TRUE)]

\* MkdirAll that gives up on a missing parent instead of creating it.
MkdirAllMutant(fs, p) ==
    IF StatOk(fs, p)
    THEN [ok |-> IsDir(fs[p]), fs |-> fs]
    ELSE IF MkdirOk(fs, p)
         THEN [ok |-> TRUE, fs |-> Mkdir(fs, p)]
         ELSE [ok |-> FALSE, fs |-> fs]

RECURSIVE MkdirAll(_, _)
\* os.MkdirAll(p, 0755): success at once when p is a directory, an error when
\* it is something else; otherwise the parent is made first and then p. What
\* was made stays when a later step fails.
MkdirAll(fs, p) ==
    IF StatOk(fs, p)
    THEN [ok |-> IsDir(fs[p]), fs |-> fs]
    ELSE LET up == IF Parent(p) = Cwd
                   THEN [ok |-> TRUE, fs |-> fs]
                   ELSE MkdirAll(fs, Parent(p))
         IN  IF ~up.ok
             THEN up
             ELSE IF MkdirOk(up.fs, p)
                  THEN [ok |-> TRUE, fs |-> Mkdir(up.fs, p)]
                  ELSE [ok |-> FALSE, fs |-> up.fs]

RECURSIVE MkdirAllErrPath(_, _)
\* The path in the *PathError of a failing os.MkdirAll(p, 0755): the first
\* component that is not a directory and cannot be made one.
MkdirAllErrPath(fs, p) ==
    IF StatOk(fs, p) \/ Parent(p) = Cwd \/ MkdirAll(fs, Parent(p)).ok
    THEN p
    ELSE MkdirAllErrPath(fs, Parent(p))

\* A WriteFile that refuses to touch a file that is already there (O_EXCL).
WriteFileOkMutant(fs, p) ==
    /\ IsDir(fs[Parent(p)])
    /\ ~Exists(fs[p])
    /\ fs[Parent(p)].w

\* os.WriteFile(p, data, 0644) opens with O_WRONLY|O_CREATE|O_TRUNC: an
\* existing file needs write permission on the file, a new one needs write
\* permission on the directory.
WriteFileOk(fs, p) ==
    /\ IsDir(fs[Parent(p)])
    /\ \/ fs[p].kind = "file" /\ fs[p].w
       \/ ~Exists(fs[p]) /\ fs[Parent(p)].w

\* A WriteFile that appends to what is there instead of truncating it.
WriteFileMutant(fs, p, data) ==
    [fs EXCEPT ![p] = File(TRUE, fs[p].data \o data)]

\* The file system after a successful os.WriteFile(p, data, 0644): the content
\* is replaced; the mode is that of the existing file, or 0644 for a new one.
WriteFile(fs, p, data) ==
    [fs EXCEPT ![p] = File(TRUE, data)]

\* A lookup that searches for git whatever tool is asked for.
LookPathOkMutant(path, tool) == "git" \in path

\* exec.LookPath(tool) finds the tool.
LookPathOk(path, tool) == tool \in path

\* exec.Command("git", "add", destPath).Run() returns no error: git is found
\* on the search path, .git is a repository whose index can be locked and
\* rewritten, the file is there, and it is not an untracked ignored path.
GitAddOk(path, fs, index, ignored, f) ==
    /\ LookPathOk(path, "git")
    /\ IsDir(fs[DotGit])
    /\ fs[DotGit].w
    /\ fs[destPath(f)].kind = "file"
    /\ ~(f \in ignored /\ index[f] = NoEntry)

\* The path of the file an index entry is about.
IndexPath(g) == IF g \in Filenames THEN destPath(g) ELSE g

\* A git add of everything in the working tree, as "git add ." does.
GitAddMutant(fs, index, f) ==
    [g \in DOMAIN index |->
        IF fs[IndexPath(g)].kind = "file" THEN fs[IndexPath(g)].data
        ELSE index[g]]

\* The index after a successful git add: the entry holds the file's content.
GitAdd(fs, index, f) == [index EXCEPT ![f] = fs[destPath(f)].data]

(***************************************************************************)
(* The command line: os.Args[1:] is a sequence of arguments, each a text.  *)
(* flag.Parse is modelled after FlagSet.parseOne of the standard library,  *)
(* with the seven string flags Run registers on two variables.             *)
(***************************************************************************)
PublisherFlags == {<<"p">>,
                   <<"p", "u", "b", "l", "i", "s", "h", "e", "r">>,
                   <<"o", "v", "s", "x", "-", "p", "u", "b", "l", "i", "s", "h", "e", "r">>}
ExtensionPathFlags == {<<"e">>,
                       <<"e", "x", "t", "e", "n", "s", "i", "o", "n", "-", "p", "a", "t", "h">>,
                       <<"p", "a", "t", "h">>,
                       <<"d", "i", "r">>}
HelpFlags == {<<"h">>, <<"h", "e", "l", "p">>}

\* The position of the first "=" of name after its first character, 0 if none.
EqualsAt(name) ==
    IF \E i \in 2..Len(name) : name[i] = "="
    THEN CHOOSE i \in 2..Len(name) :
            /\ name[i] = "="
            /\ \A j \in 2..(i - 1) : name[j] # "="
    ELSE 0

\* The argument s without its one or two leading minus signs.
FlagText(s) == IF s[2] = "-" THEN SubSeq(s, 3, Len(s)) ELSE SubSeq(s, 2, Len(s))

\* The flag name of the argument s: up to the first "=".
FlagName(s) ==
    IF EqualsAt(FlagText(s)) = 0
    THEN FlagText(s)
    ELSE SubSeq(FlagText(s), 1, EqualsAt(FlagText(s)) - 1)

\* A parser in which the first occurrence of a flag wins: a later occurrence
\* does not overwrite a value that is already set.
SetFlagMutant(st, name, value) ==
    IF name \in PublisherFlags
    THEN [st EXCEPT !.publisherFlag = IF @ = Empty THEN value ELSE @]
    ELSE [st EXCEPT !.extensionPathFlag = IF @ = Empty THEN value ELSE @]

\* flag.Value.Set(value) of the flag called name: every alias writes the one
\* variable it was registered on.
SetFlag(st, name, value) ==
    IF name \in PublisherFlags
    THEN [st EXCEPT !.publisherFlag = value]
    ELSE [st EXCEPT !.extensionPathFlag = value]

\* One line of standard output or standard error: a format with the values
\* it prints (a step number, a path, a text), each at its zero when the format
\* has no place for it.
Line(format, step, p, value) ==
    [format |-> format, step |-> step, path |-> p, value |-> value]
Text(format) == Line(format, 0, "", Empty)

\* flag.VisitAll visits the flags in the lexical order of their names.
FlagOrder ==
    <<<<"d", "i", "r">>,
      <<"e">>,
      <<"e", "x", "t", "e", "n", "s", "i", "o", "n", "-", "p", "a", "t", "h">>,
      <<"o", "v", "s", "x", "-", "p", "u", "b", "l", "i", "s", "h", "e", "r">>,
      <<"p">>,
      <<"p", "a", "t", "h">>,
      <<"p", "u", "b", "l", "i", "s", "h", "e", "r">>>>

\* FlagSet.usage(): the heading and, for every flag, PrintDefaults' two lines.
Usage ==
    <<Text("Usage of %s:")>> \o
    [i \in 1..(2 * Len(FlagOrder)) |->
        IF i % 2 = 1
        THEN Line("  -%s string", 0, "", FlagOrder[(i + 1) \div 2])
        ELSE IF FlagOrder[i \div 2] \in PublisherFlags
             THEN Text("    \tOpenVSX Publisher ID")
             ELSE Text("    \tExtension Path")]

\* FlagSet.failf: the error on one line, then the usage.
failf(format, value) == <<Line(format, 0, "", value)>> \o Usage

\* FlagSet.parseOne on the parser state st: more is the bool it returns, err
\* the lines it has printed when it returns an error, status "exit2" or
\* "exit0" the exit flag.ExitOnError then makes.
parseOne(st) ==
    IF Len(st.args) = 0 THEN [st EXCEPT !.more = FALSE]
    ELSE LET s == Head(st.args) IN
    IF Len(s) < 2 \/ s[1] # "-" THEN [st EXCEPT !.more = FALSE]
    ELSE IF s = <<"-", "-">>
    THEN [st EXCEPT !.more = FALSE, !.args = Tail(st.args)]
    ELSE IF FlagText(s) = Empty \/ FlagText(s)[1] \in {"-", "="}
    THEN [st EXCEPT !.more = FALSE, !.status = "exit2",
                    !.err = failf("bad flag syntax: %s", s)]
    ELSE LET name == FlagName(s)
             hasValue == EqualsAt(FlagText(s)) # 0
             rest == Tail(st.args)
         IN
    IF name \notin PublisherFlags \cup ExtensionPathFlags
    THEN IF name \in HelpFlags
         THEN [st EXCEPT !.more = FALSE, !.status = "exit0", !.args = rest,
                         !.err = Usage]
         ELSE [st EXCEPT !.more = FALSE, !.status = "exit2", !.args = rest,
                         !.err = failf("flag provided but not defined: -%s",
                                       name)]
    ELSE IF hasValue
    THEN [SetFlag(st, name,
                  SubSeq(FlagText(s), EqualsAt(FlagText(s)) + 1,
                         Len(FlagText(s))))
            EXCEPT !.more = TRUE, !.args = rest]
    ELSE IF Len(rest) > 0
    THEN [SetFlag(st, name, rest[1]) EXCEPT !.more = TRUE, !.args = Tail(rest)]
    ELSE [st EXCEPT !.more = FALSE, !.status = "exit2", !.args = rest,
                    !.err = failf("flag needs an argument: -%s", name)]

RECURSIVE ParseArgs(_, _)
\* FlagSet.Parse(args) under flag.ExitOnError, from the parser state st:
\* parseOne until it returns false; status "ok" when parsing ends normally,
\* "exit2" when it ends the process with code 2, "exit0" when -h or -help ends
\* it with code 0.
ParseArgs(args, st) ==
    LET one == parseOne([st EXCEPT !.args = args]) IN
    IF one.more THEN ParseArgs(one.args, one) ELSE one

\* The state of flag.CommandLine before flag.Parse(): both variables at their
\* default "".
NewFlagSet(args) ==
    [status |-> "ok", publisherFlag |-> Empty, extensionPathFlag |-> Empty,
     args |-> args, more |-> TRUE, err |-> << >>]

\* flag.Parse() on os.Args[1:].
Parse(args) == ParseArgs(args, NewFlagSet(args))

(***************************************************************************)
(* Rendering: the two substitutions of the loop body of Run.               *)
(***************************************************************************)
\* if publisherName != "" { fileContent = strings.ReplaceAll(...) }
ReplacePublisher(fileContent, publisherName) ==
    IF publisherName # Empty
    THEN ReplaceAll(fileContent, PublisherPlaceholder, publisherName)
    ELSE fileContent

\* An extension-path substitution that matches the placeholder by the start
\* it shares with the publisher placeholder.
ReplaceExtensionPathMutant(fileContent, extensionPath) ==
    IF extensionPath # Empty
    THEN ReplaceAll(fileContent, Open, extensionPath)
    ELSE fileContent

\* if extensionPath != "" { fileContent = strings.ReplaceAll(...) }
ReplaceExtensionPath(fileContent, extensionPath) ==
    IF extensionPath # Empty
    THEN ReplaceAll(fileContent, ExtensionPlaceholder, extensionPath)
    ELSE fileContent

\* The two substitutions in the other order.
RenderMutant(content, publisherName, extensionPath) ==
    ReplacePublisher(ReplaceExtensionPath(content, extensionPath), publisherName)

\* The content written for a template: the publisher substitution, then the
\* extension-path substitution on its result.
Render(content, publisherName, extensionPath) ==
    ReplaceExtensionPath(ReplacePublisher(content, publisherName), extensionPath)

(***************************************************************************)
(* Inputs.                                                                 *)
(***************************************************************************)
\* The embedded templates are opaque to Run; these stand for them in Spec: one
\* without placeholders, one with both, one with the extension path only, one
\* with repeated and adjacent placeholders.
Templates ==
    [f \in Filenames |->
        CASE f = "sync.yml" -> <<"o", "n", ":">>
          [] f = "release.yml" ->
                <<"p", "=">> \o PublisherPlaceholder \o <<";", "e", "=">>
                    \o ExtensionPlaceholder
          [] f = "auto-tag.yml" -> <<"c", "d", " ">> \o ExtensionPlaceholder
          [] OTHER -> ExtensionPlaceholder \o PublisherPlaceholder \o <<"#">>
                        \o PublisherPlaceholder]

\* Command lines of the runs of Spec (os.Args[1:]).
ArgP == <<"-", "p">>
ArgE == <<"-", "e">>
ArgBogus == <<"-", "-", "b", "o", "g", "u", "s">>
ArgHelp == <<"-", "h">>
ArgLists ==
    {<< >>, <<ArgP, Acme>>, <<ArgE, PkgExt>>, <<ArgP, Acme, ArgE, PkgExt>>,
     <<ArgBogus>>, <<ArgP, Acme, ArgBogus>>, <<ArgHelp>>, <<ArgP>>,
     <<Acme, ArgBogus>>}

\* What .git can be: missing, a directory (its index writable or not), a
\* regular file, a link that does not resolve.
GitNodes == {Absent, Dir(TRUE), Dir(FALSE), File(TRUE, Junk), Loop}

\* What the working directory, .github and .github/workflows can be.
DirShapes ==
    {[cwd |-> Dir(TRUE), github |-> Absent, workflows |-> Absent],
     [cwd |-> Dir(FALSE), github |-> Absent, workflows |-> Absent],
     [cwd |-> Dir(TRUE), github |-> File(TRUE, Junk), workflows |-> Absent],
     [cwd |-> Dir(TRUE), github |-> Dir(TRUE), workflows |-> Absent],
     [cwd |-> Dir(TRUE), github |-> Dir(FALSE), workflows |-> Absent],
     [cwd |-> Dir(TRUE), github |-> Dir(TRUE), workflows |-> File(TRUE, Junk)],
     [cwd |-> Dir(TRUE), github |-> Dir(TRUE), workflows |-> Dir(TRUE)],
     [cwd |-> Dir(TRUE), github |-> Dir(TRUE), workflows |-> Dir(FALSE)]}

NoFiles == [f \in Filenames |-> Absent]

\* The workflow files found in an existing workflow directory, each writable
\* or read-only.
ExistingShapes ==
    {e \in [Filenames -> {Absent, File(TRUE, Junk), File(FALSE, Junk)}] :
        Cardinality({f \in Filenames : Exists(e[f])}) <= MaxSpecial}

MkFs(git, d, e) ==
    [p \in Paths |->
        CASE p = Cwd -> d.cwd
          [] p = DotGit -> git
          [] p = DotGithub -> d.github
          [] p = workflowDir -> d.workflows
          [] p = Readme -> File(TRUE, Junk)
          [] p = OtherWorkflow ->
                IF IsDir(d.workflows) THEN File(TRUE, Junk) ELSE Absent
          [] OTHER -> e[CHOOSE f \in Filenames : destPath(f) = p]]

InitFs ==
    {MkFs(t[1], t[2], t[3]) :
        t \in {u \in GitNodes \X DirShapes \X ExistingShapes :
                  u[3] = NoFiles \/ IsDir(u[2].workflows)}}

EmptyIndex == [f \in Filenames \cup OtherPaths |-> NoEntry]

\* The index of a repository in which the files that are not workflow files of
\* the tool have been committed.
TrackedIndex(f) ==
    [g \in Filenames \cup OtherPaths |->
        IF g \in OtherPaths /\ f[g].kind = "file" THEN f[g].data ELSE NoEntry]

IgnoredSets == {x \in SUBSET Filenames : Cardinality(x) <= MaxSpecial}

\* The workflow files that count as existing in f: those for which
\* os.IsNotExist does not take the error of os.Stat, which is so for a file
\* that is there and also for a path below something that is not a directory.
Present(f) == {g \in Filenames : ~IsNotExist(StatErr(f, destPath(g)))}

(***************************************************************************)
(* State.                                                                  *)
(***************************************************************************)
VARIABLES
    path,            \* the tools found on the execution search path
    fs,              \* the file system under the working directory
    index,           \* the git index: staged content per workflow file
    ignored,         \* the workflow files a .gitignore pattern matches
    filesToInstall,  \* the embedded templates, by filename
    pc,              \* where the run is
    args,            \* os.Args[1:]
    publisherName,
    extensionPath,
    pending,         \* keys of filesToInstall the range loop has not visited
    filename,        \* the key of the current iteration
    fileContent,     \* the content under substitution (SpecRender)
    result,          \* how the run ended
    written,         \* files this run has written
    staged,          \* files this run has staged
    run,             \* number of runs started
    before,          \* file system and index when the run started
    again,           \* the run before succeeded, with the arguments of this one
    flagSet,         \* flag.CommandLine: the two variables, the arguments left
    stdout,          \* the lines printed to standard output
    stderr,          \* the lines printed to standard error
    exitCode,        \* the exit code of the process, NoExit while it runs
    attempts,        \* calls the run has made: MkdirAll, WriteFile and git add
    cmdline,         \* what the command line was composed of (SpecFlags)
    procs,           \* the runs that share the repository (SpecConcurrent)
    writes,          \* who wrote each file last, which writes overlapped
    indexLock        \* the run whose git add holds .git/index.lock, or "none"

vars ==
    <<path, fs, index, ignored, filesToInstall, pc, args, publisherName,
      extensionPath, pending, filename, fileContent, result, written, staged,
      run, before, again, flagSet, stdout, stderr, exitCode, attempts,
      cmdline, procs, writes, indexLock>>

io == <<stdout, stderr, exitCode>>
world == <<path, ignored, filesToInstall, cmdline, procs, writes, indexLock>>
ghost == <<run, before, again>>

(***************************************************************************)
(* What Run and main print.                                                *)
(***************************************************************************)
Rule == Text("==========================================")

\* The first character of the line of app.go:88, U+2705 (white heavy check
\* mark): a string of this language holds ASCII only, so the character is
\* written by its code point.
CheckMark == "U+2705"
Banner ==
    <<Rule, Text("   OpenVSX Fork Configuration Assistant   "), Rule>>

ToolMissingLines ==
    <<Text("Error: GitHub CLI (gh) is not installed."),
      Text("Please install it: https://cli.github.com/")>>

NotARepositoryLines ==
    <<Text("Error: This does not look like a git repository."),
      Text("Please run this command from the root of your forked extension.")>>

\* The lines that report the values taken from the flags.
UsingLines(publisher, extension) ==
    (IF publisher # Empty
     THEN <<Line("Using Publisher ID from flag: %s", 0, "", publisher)>>
     ELSE << >>) \o
    (IF extension # Empty
     THEN <<Line("Using Extension Path from flag: %s", 0, "", extension)>>
     ELSE << >>)

\* fmt.Println("\n--- Installing Workflows ---")
InstallingLines == <<Text(""), Text("--- Installing Workflows ---")>>

PublisherReminder(step) ==
    Line("%d. Set 'PUBLISHER_NAME' in your repository variables (or use -p flag next time).",
         step, "", Empty)
ExtensionPathReminder(step) ==
    Line("%d. Set 'EXTENSION_PATH' in your repository variables (or use -e flag next time).",
         step, "", Empty)

\* The instructions for committing, numbered step.
CommitLines(step) ==
    <<Line("%d. Review the staged changes and commit them:", step, "", Empty),
      Text("   git status"),
      Text("   git commit -m 'chore: configure openvsx release workflows'"),
      Text("")>>

\* A summary that prints both reminders whatever the parameters are.
SummaryMutant(publisher, extension) ==
    <<Text(CheckMark \o " Workflow files created in .github/workflows/"), Text(""), Rule,
      Text("   Setup Complete!                        "), Rule,
      Text("Next Steps:"),
      Line("%d. Ensure 'OPEN_VSX_TOKEN' is set in your repository secrets.",
           1, "", Empty),
      PublisherReminder(2), ExtensionPathReminder(3)>> \o CommitLines(4)

\* The summary of a successful run: the steps are numbered from 1, a reminder
\* takes a number only when it is printed.
Summary(publisher, extension) ==
    LET afterPublisher == IF publisher = Empty THEN 3 ELSE 2
        afterExtension == IF extension = Empty
                          THEN afterPublisher + 1 ELSE afterPublisher
    IN  <<Text(CheckMark \o " Workflow files created in .github/workflows/"), Text(""), Rule,
          Text("   Setup Complete!                        "), Rule,
          Text("Next Steps:"),
          Line("%d. Ensure 'OPEN_VSX_TOKEN' is set in your repository secrets.",
               1, "", Empty)>>
        \o (IF publisher = Empty THEN <<PublisherReminder(2)>> ELSE << >>)
        \o (IF extension = Empty
            THEN <<ExtensionPathReminder(afterPublisher)>> ELSE << >>)
        \o CommitLines(afterExtension)

\* fmt.Fprintf(os.Stderr, "Error: %v\n", err) of main, for the error of Run
\* with the given text about the path p.
ErrorLine(message, p) == Line("Error: " \o message, 0, p, Empty)

\* The process has not exited.
NoExit == -1

\* No file has been written by any run, no two writes have overlapped.
NoWrites == [last |-> [f \in Filenames |-> "none"], overlapped |-> {}]

NoAttempts ==
    [mkdir |-> 0, write |-> [f \in Filenames |-> 0],
     add |-> [f \in Filenames |-> 0]]

Init ==
    /\ path \in SUBSET {"gh", "git"}
    /\ fs \in InitFs
    /\ index \in {EmptyIndex, TrackedIndex(fs)}
    /\ ignored \in IgnoredSets
    /\ Cardinality({g \in Filenames : Exists(fs[destPath(g)])})
          + Cardinality(ignored) <= MaxSpecial
    /\ filesToInstall = Templates
    /\ pc = "idle"
    /\ args = << >>
    /\ publisherName = Empty
    /\ extensionPath = Empty
    /\ pending = {}
    /\ filename = "none"
    /\ fileContent = Empty
    /\ result = "none"
    /\ written = {}
    /\ staged = {}
    /\ run = 0
    /\ before = [fs |-> fs, index |-> index]
    /\ again = FALSE
    /\ flagSet = NewFlagSet(<< >>)
    /\ stdout = << >>
    /\ stderr = << >>
    /\ exitCode = NoExit
    /\ attempts = NoAttempts
    /\ cmdline = << >>
    /\ procs = << >>
    /\ writes = NoWrites
    /\ indexLock = "none"

(***************************************************************************)
(* The run, step by step.                                                  *)
(***************************************************************************)
\* The process starts with a command line. The tool is run again after a run
\* that succeeded, to install the files anew or with other parameters; in an
\* environment that has not changed, a run after a failed one meets the same
\* failing operation.
StartRun(a) ==
    /\ pc = "idle" \/ (pc = "done" /\ result = "ok")
    /\ run < MaxRuns
    /\ pc' = "LookPath"
    /\ args' = a
    /\ publisherName' = Empty
    /\ extensionPath' = Empty
    /\ pending' = Filenames
    /\ filename' = "none"
    /\ result' = "running"
    /\ written' = {}
    /\ staged' = {}
    /\ run' = run + 1
    /\ before' = [fs |-> fs, index |-> index]
    /\ again' = (pc = "done" /\ result = "ok" /\ a = args)
    /\ flagSet' = NewFlagSet(<< >>)
    /\ stdout' = << >>
    /\ stderr' = << >>
    /\ exitCode' = NoExit
    /\ attempts' = NoAttempts
    /\ UNCHANGED <<world, fs, index, fileContent>>

\* The process ends: kind says how, lines is what the exit path prints to
\* standard error, code is the exit code.
Exit(kind, lines, code) ==
    /\ pc' = "done"
    /\ result' = kind
    /\ stderr' = stderr \o lines
    /\ exitCode' = code

\* A main that prints the error of Run and returns without os.Exit(1).
FailMutant(kind, message, p) == Exit(kind, <<ErrorLine(message, p)>>, 0)

\* Run returns an error: main prints it on one line and exits with code 1.
Fail(kind, message, p) == Exit(kind, <<ErrorLine(message, p)>>, 1)

\* A tool check that reports the missing tool and lets the run go on.
CheckToolMutant ==
    /\ pc = "LookPath"
    /\ pc' = "Stat"
    /\ stdout' = IF LookPathOk(path, "gh")
                 THEN stdout \o Banner
                 ELSE stdout \o Banner \o ToolMissingLines
    /\ UNCHANGED <<result, stderr, exitCode>>
    /\ UNCHANGED <<world, ghost, fs, index, args, publisherName, extensionPath,
                   pending, filename, fileContent, written, staged, flagSet,
                   attempts>>

\* The banner; if _, err := exec.LookPath("gh"); err != nil { return ... }
CheckTool ==
    /\ pc = "LookPath"
    /\ IF LookPathOk(path, "gh")
       THEN /\ pc' = "Stat"
            /\ stdout' = stdout \o Banner
            /\ UNCHANGED <<result, stderr, exitCode>>
       ELSE /\ stdout' = stdout \o Banner \o ToolMissingLines
            /\ Fail("ToolNotFound", "gh not installed", "")
    /\ UNCHANGED <<world, ghost, fs, index, args, publisherName, extensionPath,
                   pending, filename, fileContent, written, staged, flagSet,
                   attempts>>

\* if _, err := os.Stat(".git"); os.IsNotExist(err) { return "not a git repo" }
CheckRepository ==
    /\ pc = "Stat"
    /\ IF IsNotExist(StatErr(fs, DotGit))
       THEN /\ stdout' = stdout \o NotARepositoryLines
            /\ Fail("NotARepository", "not a git repo", "")
       ELSE /\ pc' = "Parse"
            /\ UNCHANGED <<result, io>>
    /\ UNCHANGED <<world, ghost, fs, index, args, publisherName, extensionPath,
                   pending, filename, fileContent, written, staged, flagSet,
                   attempts>>

\* Flag parsing under flag.ContinueOnError with the error dropped: the lines
\* are printed and the run goes on with what was parsed.
ParseFlagsMutant ==
    /\ pc = "Parse"
    /\ flagSet' = Parse(args)
    /\ publisherName' = flagSet'.publisherFlag
    /\ extensionPath' = flagSet'.extensionPathFlag
    /\ stdout' = stdout \o UsingLines(flagSet'.publisherFlag,
                                      flagSet'.extensionPathFlag)
    /\ stderr' = stderr \o flagSet'.err
    /\ pc' = "MkdirAll"
    /\ UNCHANGED <<result, exitCode>>
    /\ UNCHANGED <<world, ghost, fs, index, args, pending, filename,
                   fileContent, written, staged, attempts>>

\* flag.Parse(); publisherName := publisherFlag; extensionPath :=
\* extensionPathFlag; the two lines about the values. A parse error or -h
\* ends the process inside flag.Parse, with the flag package's own lines.
ParseFlags ==
    /\ pc = "Parse"
    /\ flagSet' = Parse(args)
    /\ IF flagSet'.status = "ok"
       THEN /\ publisherName' = flagSet'.publisherFlag
            /\ extensionPath' = flagSet'.extensionPathFlag
            /\ stdout' = stdout \o UsingLines(flagSet'.publisherFlag,
                                              flagSet'.extensionPathFlag)
            /\ pc' = "MkdirAll"
            /\ UNCHANGED <<result, stderr, exitCode>>
       ELSE /\ IF flagSet'.status = "exit0"
               THEN Exit("FlagHelp", flagSet'.err, 0)
               ELSE Exit("FlagError", flagSet'.err, 2)
            /\ UNCHANGED <<publisherName, extensionPath, stdout>>
    /\ UNCHANGED <<world, ghost, fs, index, args, pending, filename,
                   fileContent, written, staged, attempts>>

\* The directory creation with its error dropped.
MakeWorkflowDirMutant ==
    /\ pc = "MkdirAll"
    /\ fs' = MkdirAll(fs, workflowDir).fs
    /\ attempts' = [attempts EXCEPT !.mkdir = @ + 1]
    /\ stdout' = stdout \o InstallingLines
    /\ pc' = "range"
    /\ UNCHANGED <<world, ghost, index, args, publisherName, extensionPath,
                   pending, filename, fileContent, result, written, staged,
                   flagSet, stderr, exitCode>>

\* The heading; if err := os.MkdirAll(workflowDir, 0755); err != nil { ... }
MakeWorkflowDir ==
    /\ pc = "MkdirAll"
    /\ attempts' = [attempts EXCEPT !.mkdir = @ + 1]
    /\ LET r == MkdirAll(fs, workflowDir) IN
       /\ fs' = r.fs
       /\ IF r.ok
          THEN /\ pc' = "range"
               /\ stdout' = stdout \o InstallingLines
               /\ UNCHANGED <<result, stderr, exitCode>>
          ELSE /\ stdout' = stdout \o InstallingLines \o
                    <<Line("Error creating workflow directory: %v", 0,
                           MkdirAllErrPath(fs, workflowDir), Empty)>>
               /\ Fail("DirectoryCreateFailed", "mkdir %s: %v",
                       MkdirAllErrPath(fs, workflowDir))
    /\ UNCHANGED <<world, ghost, index, args, publisherName, extensionPath,
                   pending, filename, fileContent, written, staged, flagSet>>

\* The iteration with the error of os.WriteFile dropped.
WriteWorkflowMutant(f) ==
    /\ pc = "range"
    /\ f \in pending
    /\ pending' = pending \ {f}
    /\ filename' = f
    /\ attempts' = [attempts EXCEPT !.write[f] = @ + 1]
    /\ IF WriteFileOk(fs, destPath(f))
       THEN /\ fs' = WriteFile(fs, destPath(f),
                               Render(filesToInstall[f], publisherName,
                                      extensionPath))
            /\ written' = written \cup {f}
       ELSE UNCHANGED <<fs, written>>
    /\ stdout' = Append(stdout, Line("Created %s", 0, destPath(f), Empty))
    /\ pc' = "gitAdd"
    /\ UNCHANGED <<world, ghost, index, args, publisherName, extensionPath,
                   fileContent, result, staged, flagSet, stderr, exitCode>>

\* An iteration that leaves the key in the loop when os.WriteFile fails, so
\* that the write is tried again.
WriteWorkflowRetryMutant(f) ==
    /\ pc = "range"
    /\ f \in pending
    /\ attempts.write[f] <= MaxRuns
    /\ filename' = f
    /\ attempts' = [attempts EXCEPT !.write[f] = @ + 1]
    /\ IF WriteFileOk(fs, destPath(f))
       THEN /\ fs' = WriteFile(fs, destPath(f),
                               Render(filesToInstall[f], publisherName,
                                      extensionPath))
            /\ written' = written \cup {f}
            /\ pending' = pending \ {f}
            /\ stdout' = Append(stdout,
                                Line("Created %s", 0, destPath(f), Empty))
            /\ pc' = "gitAdd"
       ELSE UNCHANGED <<fs, written, pending, stdout, pc>>
    /\ UNCHANGED <<world, ghost, index, args, publisherName, extensionPath,
                   fileContent, result, staged, flagSet, stderr, exitCode>>

\* One iteration of the range loop up to os.WriteFile, for a key the loop has
\* not visited yet: the map is ranged over in an unspecified order.
WriteWorkflow(f) ==
    /\ pc = "range"
    /\ f \in pending
    /\ pending' = pending \ {f}
    /\ filename' = f
    /\ attempts' = [attempts EXCEPT !.write[f] = @ + 1]
    /\ IF WriteFileOk(fs, destPath(f))
       THEN /\ fs' = WriteFile(fs, destPath(f),
                               Render(filesToInstall[f], publisherName,
                                      extensionPath))
            /\ written' = written \cup {f}
            /\ stdout' = Append(stdout,
                                Line("Created %s", 0, destPath(f), Empty))
            /\ pc' = "gitAdd"
            /\ UNCHANGED <<result, stderr, exitCode>>
       ELSE /\ Fail("FileWriteFailed", "error writing file %s: %w",
                    destPath(f))
            /\ UNCHANGED <<fs, written, stdout>>
    /\ UNCHANGED <<world, ghost, index, args, publisherName, extensionPath,
                   fileContent, staged, flagSet>>

\* The staging with the error of git add dropped: the loop goes on.
StageWorkflowMutant ==
    /\ pc = "gitAdd"
    /\ attempts' = [attempts EXCEPT !.add[filename] = @ + 1]
    /\ IF GitAddOk(path, fs, index, ignored, filename)
       THEN /\ index' = GitAdd(fs, index, filename)
            /\ staged' = staged \cup {filename}
       ELSE UNCHANGED <<index, staged>>
    /\ stdout' = Append(stdout,
                        Line("Staged %s", 0, destPath(filename), Empty))
    /\ pc' = "range"
    /\ UNCHANGED <<world, ghost, fs, args, publisherName, extensionPath,
                   pending, filename, fileContent, result, written, flagSet,
                   stderr, exitCode>>

\* The rest of the iteration: exec.Command("git", "add", destPath).Run(); the
\* output of git is discarded.
StageWorkflow ==
    /\ pc = "gitAdd"
    /\ attempts' = [attempts EXCEPT !.add[filename] = @ + 1]
    /\ IF GitAddOk(path, fs, index, ignored, filename)
       THEN /\ index' = GitAdd(fs, index, filename)
            /\ staged' = staged \cup {filename}
            /\ stdout' = Append(stdout,
                                Line("Staged %s", 0, destPath(filename),
                                     Empty))
            /\ pc' = "range"
            /\ UNCHANGED <<result, stderr, exitCode>>
       ELSE /\ Fail("StageFailed", "failed to git add %s: %w",
                    destPath(filename))
            /\ UNCHANGED <<index, staged, stdout>>
    /\ UNCHANGED <<world, ghost, fs, args, publisherName, extensionPath,
                   pending, filename, fileContent, written, flagSet>>

\* A loop that may end before every key has been visited.
CompleteMutant ==
    /\ pc = "range"
    /\ stdout' = stdout \o Summary(publisherName, extensionPath)
    /\ Exit("ok", << >>, 0)
    /\ UNCHANGED <<world, ghost, fs, index, args, publisherName, extensionPath,
                   pending, filename, fileContent, written, staged, flagSet,
                   attempts>>

\* The loop is over: the summary is printed, Run returns nil and main returns.
Complete ==
    /\ pc = "range"
    /\ pending = {}
    /\ stdout' = stdout \o Summary(publisherName, extensionPath)
    /\ Exit("ok", << >>, 0)
    /\ UNCHANGED <<world, ghost, fs, index, args, publisherName, extensionPath,
                   pending, filename, fileContent, written, staged, flagSet,
                   attempts>>

\* The keys of filesToInstall in the order of the map literal.
KeyOrder == <<"sync.yml", "release.yml", "auto-tag.yml", "check-version.yml">>

RECURSIVE RunLoop(_, _)
\* The range loop of Run when it visits the keys in the given order, from the
\* record st of file system, index, written and staged files: where it ends.
RunLoop(order, st) ==
    IF order = << >> THEN [st EXCEPT !.result = "ok"]
    ELSE LET f == Head(order)
             wrote == WriteFile(st.fs, destPath(f),
                                Render(filesToInstall[f], publisherName,
                                       extensionPath))
         IN
    IF ~WriteFileOk(st.fs, destPath(f))
    THEN [st EXCEPT !.result = "FileWriteFailed"]
    ELSE IF ~GitAddOk(path, wrote, st.index, ignored, f)
    THEN [st EXCEPT !.result = "StageFailed", !.fs = wrote,
                    !.written = @ \cup {f}]
    ELSE RunLoop(Tail(order),
                 [st EXCEPT !.fs = wrote, !.written = @ \cup {f},
                            !.index = GitAdd(wrote, st.index, f),
                            !.staged = @ \cup {f}])

Next ==
    \/ \E a \in ArgLists : StartRun(a)
    \/ CheckTool
    \/ CheckRepository
    \/ ParseFlags
    \/ MakeWorkflowDir
    \/ \E f \in Filenames : WriteWorkflow(f)
    \/ StageWorkflow
    \/ Complete

Spec == Init /\ [][Next]_vars

\* A step of the run that is under way. Run is sequential and makes blocking
\* calls only: when each call returns, the step that is enabled is taken.
RunStep ==
    \/ CheckTool
    \/ CheckRepository
    \/ ParseFlags
    \/ MakeWorkflowDir
    \/ \E f \in Filenames : WriteWorkflow(f)
    \/ StageWorkflow
    \/ Complete

\* The environments of the liveness specification: those of Init with nothing
\* tracked and nothing ignored (an add still fails where git is not on the
\* search path, a write or a directory creation where the file system is in
\* the way).
InitLive ==
    /\ Init
    /\ index = EmptyIndex
    /\ ignored = {}

SpecLive == InitLive /\ [][Next]_vars /\ WF_vars(RunStep)

(***************************************************************************)
(* SpecRender: the loop body of Run on one template, for templates built   *)
(* from pieces that make placeholders repeat, touch and arise from parts.  *)
(***************************************************************************)
RenderPieces ==
    {PublisherPlaceholder, ExtensionPlaceholder, Open \o ExtensionWord, Close,
     <<"x">>}

RECURSIVE TemplatesOf(_)
\* The concatenations of at most n pieces.
TemplatesOf(n) ==
    IF n = 0 THEN {Empty}
    ELSE TemplatesOf(n - 1)
            \cup {t \o p : t \in TemplatesOf(n - 1), p \in RenderPieces}

\* Values of the two parameters: unset, plain, and values that are or
\* complete a placeholder.
RenderValues ==
    {Empty, Acme, PkgExt, ExtensionPlaceholder, PublisherPlaceholder, PathWord}

InitRender ==
    /\ path = {"gh", "git"}
    /\ fs = MkFs(Dir(TRUE),
                 [cwd |-> Dir(TRUE), github |-> Dir(TRUE),
                  workflows |-> Dir(TRUE)],
                 NoFiles)
    /\ index = EmptyIndex
    /\ ignored = {}
    /\ \E t \in TemplatesOf(MaxPieces) :
          /\ filesToInstall = [f \in Filenames |-> t]
          /\ fileContent = t
    /\ pc = "subst1"
    /\ args = << >>
    /\ publisherName \in RenderValues
    /\ extensionPath \in RenderValues
    /\ pending = {}
    /\ filename \in Filenames
    /\ result = "running"
    /\ written = {}
    /\ staged = {}
    /\ run = 1
    /\ before = [fs |-> fs, index |-> index]
    /\ again = FALSE
    /\ flagSet = NewFlagSet(<< >>)
    /\ stdout = << >>
    /\ stderr = << >>
    /\ exitCode = NoExit
    /\ attempts = NoAttempts
    /\ cmdline = << >>
    /\ procs = << >>
    /\ writes = NoWrites
    /\ indexLock = "none"

\* if publisherName != "" { fileContent = strings.ReplaceAll(...) }
SubstPublisher ==
    /\ pc = "subst1"
    /\ fileContent' = ReplacePublisher(fileContent, publisherName)
    /\ pc' = "subst2"
    /\ UNCHANGED <<world, ghost, fs, index, args, publisherName, extensionPath,
                   pending, filename, result, written, staged, flagSet, io,
                   attempts>>

\* if extensionPath != "" { fileContent = strings.ReplaceAll(...) }
SubstExtensionPath ==
    /\ pc = "subst2"
    /\ fileContent' = ReplaceExtensionPath(fileContent, extensionPath)
    /\ pc' = "write"
    /\ UNCHANGED <<world, ghost, fs, index, args, publisherName, extensionPath,
                   pending, filename, result, written, staged, flagSet, io,
                   attempts>>

\* os.WriteFile(destPath, []byte(fileContent), 0644)
WriteRendered ==
    /\ pc = "write"
    /\ WriteFileOk(fs, destPath(filename))
    /\ fs' = WriteFile(fs, destPath(filename), fileContent)
    /\ written' = written \cup {filename}
    /\ pc' = "written"
    /\ UNCHANGED <<world, ghost, index, args, publisherName, extensionPath,
                   pending, filename, fileContent, result, staged, flagSet,
                   io, attempts>>

NextRender == SubstPublisher \/ SubstExtensionPath \/ WriteRendered

SpecRender == InitRender /\ [][NextRender]_vars

(***************************************************************************)
(* SpecFlags: flag.Parse() on command lines composed of occurrences of the *)
(* seven flags, in both forms and with values that look like flags, and of *)
(* other arguments; the parser is run one parseOne at a time.              *)
(***************************************************************************)
FlagValues == {Acme, ArgE, Empty}

\* An occurrence of a flag with its value, written "-name value" or
\* "-name=value".
FlagItems ==
    [kind : {"flag"}, name : PublisherFlags \cup ExtensionPathFlags,
     value : FlagValues, form : {"next", "equals"}]

\* An argument that is no occurrence of a flag of the tool: a word, a flag
\* the tool does not have.
OtherItems ==
    [kind : {"other"}, name : {Empty}, value : {<<"x">>, ArgBogus},
     form : {"next"}]

\* One minus sign before a one-letter name, two before a longer one.
Dashed(name) ==
    IF Len(name) = 1 THEN <<"-">> \o name ELSE <<"-", "-">> \o name

\* The arguments an item is written as.
ItemArgs(item) ==
    IF item.kind = "other" THEN <<item.value>>
    ELSE IF item.form = "equals"
         THEN <<Dashed(item.name) \o <<"=">> \o item.value>>
         ELSE <<Dashed(item.name), item.value>>

RECURSIVE ArgsOf(_)
ArgsOf(items) ==
    IF items = << >> THEN << >>
    ELSE ItemArgs(Head(items)) \o ArgsOf(Tail(items))

RECURSIVE ItemLists(_)
\* The sequences of at most n items.
ItemLists(n) ==
    IF n = 0 THEN {<< >>}
    ELSE ItemLists(n - 1)
            \cup {Append(l, i) : l \in ItemLists(n - 1),
                                 i \in FlagItems \cup OtherItems}

InitFlags ==
    /\ path = {"gh", "git"}
    /\ fs = MkFs(Dir(TRUE),
                 [cwd |-> Dir(TRUE), github |-> Absent, workflows |-> Absent],
                 NoFiles)
    /\ index = EmptyIndex
    /\ ignored = {}
    /\ filesToInstall = Templates
    /\ cmdline \in ItemLists(MaxFlags)
    /\ procs = << >>
    /\ writes = NoWrites
    /\ indexLock = "none"
    /\ args = ArgsOf(cmdline)
    /\ flagSet = NewFlagSet(args)
    /\ pc = "parseOne"
    /\ publisherName = Empty
    /\ extensionPath = Empty
    /\ pending = Filenames
    /\ filename = "none"
    /\ fileContent = Empty
    /\ result = "running"
    /\ written = {}
    /\ staged = {}
    /\ run = 1
    /\ before = [fs |-> fs, index |-> index]
    /\ again = FALSE
    /\ stdout = Banner
    /\ stderr = << >>
    /\ exitCode = NoExit
    /\ attempts = NoAttempts

\* One round of the loop of FlagSet.Parse: seen, err := f.parseOne()
ParseOne ==
    /\ pc = "parseOne"
    /\ flagSet' = parseOne(flagSet)
    /\ pc' = IF flagSet'.more THEN "parseOne" ELSE "parsed"
    /\ UNCHANGED <<world, ghost, fs, index, args, publisherName, extensionPath,
                   pending, filename, fileContent, result, written, staged,
                   io, attempts>>

\* flag.Parse() returns or exits; publisherName := publisherFlag;
\* extensionPath := extensionPathFlag; the lines about the values.
TakeFlags ==
    /\ pc = "parsed"
    /\ IF flagSet.status = "ok"
       THEN /\ publisherName' = flagSet.publisherFlag
            /\ extensionPath' = flagSet.extensionPathFlag
            /\ stdout' = stdout \o UsingLines(flagSet.publisherFlag,
                                              flagSet.extensionPathFlag)
            /\ pc' = "MkdirAll"
            /\ UNCHANGED <<result, stderr, exitCode>>
       ELSE /\ IF flagSet.status = "exit0"
               THEN Exit("FlagHelp", flagSet.err, 0)
               ELSE Exit("FlagError", flagSet.err, 2)
            /\ UNCHANGED <<publisherName, extensionPath, stdout>>
    /\ UNCHANGED <<world, ghost, fs, index, args, pending, filename,
                   fileContent, written, staged, flagSet, attempts>>

NextFlags == ParseOne \/ TakeFlags

SpecFlags == InitFlags /\ [][NextFlags]_vars

(***************************************************************************)
(* SpecConcurrent: two runs in the loop at the same time on one            *)
(* repository. Nothing in Run locks a file, so the steps of the two loops  *)
(* interleave, and so do the two system calls of os.WriteFile: the open    *)
(* that truncates the file and the write of the content.                   *)
(***************************************************************************)
Procs == {"A", "B"}

\* The parameters a concurrent run can have: publisherName, extensionPath.
ConcurrentParams == {<<Empty, Empty>>, <<Acme, PkgExt>>}

\* A run at the head of its loop, past both checks and the directory
\* creation.
AtLoop(params) ==
    [pc |-> "range", publisherName |-> params[1], extensionPath |-> params[2],
     pending |-> Filenames, filename |-> "none", written |-> {},
     staged |-> {}, size |-> 0, blob |-> Empty, result |-> "running"]

\* write(2) of data at offset 0 of a file that holds old: what lies beyond
\* the data stays.
WriteAtStart(old, data) == data \o SubSeq(old, Len(data) + 1, Len(old))

\* What the run p renders for the file f.
RenderedBy(p, f) ==
    Render(filesToInstall[f], procs[p].publisherName, procs[p].extensionPath)

InitConcurrent ==
    /\ path = {"gh", "git"}
    /\ fs = MkFs(Dir(TRUE),
                 [cwd |-> Dir(TRUE), github |-> Dir(TRUE),
                  workflows |-> Dir(TRUE)],
                 NoFiles)
    /\ index = EmptyIndex
    /\ ignored = {}
    /\ filesToInstall = Templates
    /\ procs \in [Procs -> {AtLoop(x) : x \in ConcurrentParams}]
    /\ writes = NoWrites
    /\ indexLock = "none"
    /\ pc = "concurrent"
    /\ args = << >>
    /\ publisherName = Empty
    /\ extensionPath = Empty
    /\ pending = {}
    /\ filename = "none"
    /\ fileContent = Empty
    /\ result = "running"
    /\ written = {}
    /\ staged = {}
    /\ run = 1
    /\ before = [fs |-> fs, index |-> index]
    /\ again = FALSE
    /\ flagSet = NewFlagSet(<< >>)
    /\ stdout = << >>
    /\ stderr = << >>
    /\ exitCode = NoExit
    /\ attempts = NoAttempts
    /\ cmdline = << >>

\* What no step of a concurrent run changes.
single ==
    <<path, ignored, filesToInstall, cmdline, pc, args, publisherName,
      extensionPath, pending, filename, fileContent, result, written, staged,
      run, before, again, flagSet, stdout, stderr, exitCode, attempts>>

\* The run p starts an iteration on the key f: os.WriteFile opens destPath
\* with O_WRONLY|O_CREATE|O_TRUNC, which empties the file.
OpenFile(p, f) ==
    /\ procs[p].pc = "range"
    /\ f \in procs[p].pending
    /\ fs' = [fs EXCEPT ![destPath(f)] = File(TRUE, Empty)]
    /\ procs' = [procs EXCEPT ![p].pc = "write", ![p].filename = f,
                              ![p].pending = @ \ {f}]
    /\ writes' = IF \E q \in Procs \ {p} :
                        procs[q].pc = "write" /\ procs[q].filename = f
                 THEN [writes EXCEPT !.overlapped = @ \cup {f}]
                 ELSE writes
    /\ UNCHANGED <<single, index, indexLock>>

\* os.WriteFile writes the rendered content through its own descriptor, from
\* offset 0, and closes the file.
WriteData(p) ==
    /\ procs[p].pc = "write"
    /\ fs' = [fs EXCEPT ![destPath(procs[p].filename)] =
                File(TRUE, WriteAtStart(@.data,
                                        RenderedBy(p, procs[p].filename)))]
    /\ procs' = [procs EXCEPT ![p].pc = "gitAdd",
                              ![p].written = @ \cup {procs[p].filename}]
    /\ writes' = [writes EXCEPT !.last[procs[p].filename] = p]
    /\ UNCHANGED <<single, index, indexLock>>

\* exec.Command("git", "add", destPath).Run() of the run p starts git, which
\* creates .git/index.lock and does not wait for it: when the git add of the
\* other run holds the lock, git exits with status 128, and Run returns
\* "failed to git add" with the rest of its files neither written nor staged.
LockIndex(p) ==
    /\ procs[p].pc = "gitAdd"
    /\ IF indexLock = "none"
       THEN /\ indexLock' = p
            /\ procs' = [procs EXCEPT ![p].pc = "lstat"]
       ELSE /\ indexLock' = indexLock
            /\ procs' = [procs EXCEPT ![p].pc = "done",
                                      ![p].result = "StageFailed"]
    /\ UNCHANGED <<single, fs, index, writes>>

\* git add of the run p, holding the lock, takes the size of the file with
\* lstat.
StatFile(p) ==
    /\ procs[p].pc = "lstat"
    /\ indexLock = p
    /\ GitAddOk(path, fs, index, ignored, procs[p].filename)
    /\ procs' = [procs EXCEPT ![p].pc = "read",
                    ![p].size = Len(fs[destPath(procs[p].filename)].data)]
    /\ UNCHANGED <<single, fs, index, writes, indexLock>>

\* git add of the run p opens the file and reads as many bytes as lstat
\* reported, which become the blob. A file that has fewer bytes by now (the
\* other run has truncated it) is a short read: git drops the lock and exits
\* with status 128, and Run returns "failed to git add". A file that has more
\* bytes by now gives its first bytes.
HashFile(p) ==
    /\ procs[p].pc = "read"
    /\ indexLock = p
    /\ LET data == fs[destPath(procs[p].filename)].data
       IN  IF Len(data) < procs[p].size
           THEN /\ indexLock' = "none"
                /\ procs' = [procs EXCEPT ![p].pc = "done", ![p].size = 0,
                                          ![p].result = "StageFailed"]
           ELSE /\ indexLock' = indexLock
                /\ procs' = [procs EXCEPT ![p].pc = "commit", ![p].size = 0,
                                ![p].blob = SubSeq(data, 1, procs[p].size)]
    /\ UNCHANGED <<single, fs, index, writes>>

\* A staging that puts into the index what the run has rendered, not what
\* git read from the file.
StageFileMutant(p) ==
    /\ procs[p].pc = "commit"
    /\ indexLock = p
    /\ index' = [index EXCEPT ![procs[p].filename] =
                    RenderedBy(p, procs[p].filename)]
    /\ indexLock' = "none"
    /\ procs' = [procs EXCEPT ![p].pc = "range", ![p].blob = Empty,
                              ![p].staged = @ \cup {procs[p].filename},
                              ![p].filename = "none"]
    /\ UNCHANGED <<single, fs, writes>>

\* git add of the run p writes the index with the blob as the entry of the
\* file and renames the lock file over it, which releases the lock; git exits
\* with status 0 and the iteration ends ("Staged"), and with it the scope of
\* its variable filename.
StageFile(p) ==
    /\ procs[p].pc = "commit"
    /\ indexLock = p
    /\ index' = [index EXCEPT ![procs[p].filename] = procs[p].blob]
    /\ indexLock' = "none"
    /\ procs' = [procs EXCEPT ![p].pc = "range", ![p].blob = Empty,
                              ![p].staged = @ \cup {procs[p].filename},
                              ![p].filename = "none"]
    /\ UNCHANGED <<single, fs, writes>>

\* The loop of the run p is over: Run returns nil.
Finish(p) ==
    /\ procs[p].pc = "range"
    /\ procs[p].pending = {}
    /\ procs' = [procs EXCEPT ![p].pc = "done", ![p].result = "ok"]
    /\ UNCHANGED <<single, fs, index, writes, indexLock>>

NextConcurrent ==
    \E p \in Procs :
        \/ \E f \in Filenames : OpenFile(p, f)
        \/ WriteData(p)
        \/ LockIndex(p)
        \/ StatFile(p)
        \/ HashFile(p)
        \/ StageFile(p)
        \/ Finish(p)

SpecConcurrent == InitConcurrent /\ [][NextConcurrent]_vars

(***************************************************************************)
(* Vocabulary of the properties.                                           *)
(***************************************************************************)
\* All positions at which tok occurs in s.
Occurrences(s, tok) == {i \in 1..Len(s) : MatchAt(s, tok, i)}

\* No two occurrences of tok in s share a character.
Disjoint(s, tok) ==
    \A i, j \in Occurrences(s, tok) : i < j => i + Len(tok) <= j

RECURSIVE SegmentsFrom(_, _, _, _)
\* The parts of s from position from on that lie between the occurrences occ
\* of a token of length n.
SegmentsFrom(s, occ, n, from) ==
    LET later == {o \in occ : o >= from} IN
    IF later = {}
    THEN <<SubSeq(s, from, Len(s))>>
    ELSE LET o == CHOOSE x \in later : \A y \in later : x <= y
         IN  <<SubSeq(s, from, o - 1)>> \o SegmentsFrom(s, occ, n, o + n)

\* s = Segments(s, tok)[1] \o tok \o Segments(s, tok)[2] \o tok \o ...
Segments(s, tok) == SegmentsFrom(s, Occurrences(s, tok), Len(tok), 1)

RECURSIVE Join(_, _)
\* The segments with sep between each two.
Join(segs, sep) ==
    IF Len(segs) = 1 THEN segs[1]
    ELSE segs[1] \o sep \o Join(Tail(segs), sep)

\* The template and the written content of the file under test (SpecRender).
TemplateUnderTest == filesToInstall[filename]
WrittenContent == fs[destPath(filename)].data

\* The run is over.
Done == pc = "done"

\* The run has changed nothing in the repository.
NothingDone ==
    /\ fs = before.fs
    /\ index = before.index
    /\ written = {}
    /\ staged = {}

\* The run found gh and a .git entry and parsed its command line.
PassedChecks ==
    /\ "gh" \in path
    /\ before.fs[DotGit].kind # "absent"
    /\ Parse(args).status = "ok"

\* What this run renders for the file f.
Rendered(f) == Render(filesToInstall[f], publisherName, extensionPath)

(***************************************************************************)
(* Properties.                                                             *)
(***************************************************************************)
\* The repository the run started in is freshly initialized: a writable
\* working directory with a usable .git, no .github yet, an empty index.
FreshRepository ==
    /\ before.fs[Cwd] = Dir(TRUE)
    /\ before.fs[DotGit] = Dir(TRUE)
    /\ before.fs[DotGithub] = Absent
    /\ before.index = EmptyIndex

\* Nothing in the environment makes an external operation of the run fail.
AllOperationsSucceed ==
    /\ {"gh", "git"} \subseteq path
    /\ ignored = {}
    /\ Parse(args).status = "ok"

\* C1: a run with any pair of parameters against a freshly initialized
\* repository in which every external operation succeeds ends in success, with
\* exactly the four workflow files in .github/workflows/, each staged with the
\* content it has on disk.
C1_FreshRunInstallsAll ==
    (Done /\ FreshRepository /\ AllOperationsSucceed) =>
        /\ result = "ok"
        /\ IsDir(fs[workflowDir])
        /\ Present(fs) = Filenames
        /\ \A f \in Filenames :
              /\ fs[destPath(f)].kind = "file"
              /\ index[f] # NoEntry
              /\ index[f] = fs[destPath(f)].data
        /\ staged = Filenames

\* A fresh run without any flag has ended in success.
C1_Witness ==
    /\ Done /\ FreshRepository /\ AllOperationsSucceed
    /\ result = "ok"
    /\ publisherName = Empty /\ extensionPath = Empty

\* The written content when each occurrence of the publisher placeholder in
\* the template is replaced by sep and the parts between are rendered with the
\* extension path alone.
PublisherReplacedBy(sep) ==
    Join([i \in 1..Len(Segments(TemplateUnderTest, PublisherPlaceholder)) |->
            ReplaceExtensionPath(
                Segments(TemplateUnderTest, PublisherPlaceholder)[i],
                extensionPath)],
         sep)

\* The template with every publisher placeholder replaced by publisherName.
PublisherInserted ==
    Join(Segments(TemplateUnderTest, PublisherPlaceholder), publisherName)

\* Inserting publisherName makes no new extension-path placeholder.
NoNewExtensionPlaceholder ==
    Cardinality(Occurrences(PublisherInserted, ExtensionPlaceholder))
        = Cardinality(Occurrences(TemplateUnderTest, ExtensionPlaceholder))

\* C2 as stated: in the written file every occurrence of the publisher
\* placeholder of the template is replaced by the literal publisherName when
\* that is non-empty, and is present unchanged when it is empty.
C2_AsStated ==
    pc = "written" =>
        /\ Disjoint(TemplateUnderTest, PublisherPlaceholder)
        /\ publisherName # Empty =>
              WrittenContent = PublisherReplacedBy(publisherName)
        /\ publisherName = Empty =>
              WrittenContent = PublisherReplacedBy(PublisherPlaceholder)

\* C2, amended: every occurrence of the publisher placeholder of the template
\* is replaced by a non-empty publisherName before the extension-path
\* substitution runs on the result; the literal publisherName stands at each
\* of these places in the written file when extensionPath is empty or the
\* insertion makes no new extension-path placeholder. With an empty
\* publisherName every occurrence is present unchanged.
C2_PublisherSubstituted ==
    pc = "written" =>
        /\ Disjoint(TemplateUnderTest, PublisherPlaceholder)
        /\ publisherName # Empty =>
              /\ WrittenContent
                    = ReplaceExtensionPath(PublisherInserted, extensionPath)
              /\ (extensionPath = Empty \/ NoNewExtensionPlaceholder) =>
                    WrittenContent = PublisherReplacedBy(publisherName)
        /\ publisherName = Empty =>
              WrittenContent = PublisherReplacedBy(PublisherPlaceholder)

\* A template with two publisher placeholders and an extension-path
\* placeholder has been written with both parameters set.
C2_Witness ==
    /\ pc = "written"
    /\ publisherName = Acme /\ extensionPath = PkgExt
    /\ Cardinality(Occurrences(TemplateUnderTest, PublisherPlaceholder)) >= 2
    /\ Occurrences(TemplateUnderTest, ExtensionPlaceholder) # {}

\* The written content when each occurrence of the extension-path placeholder
\* in the template is replaced by sep and the parts between are rendered.
ExtensionPathReplacedBy(sep) ==
    Join([i \in 1..Len(Segments(TemplateUnderTest, ExtensionPlaceholder)) |->
            Render(Segments(TemplateUnderTest, ExtensionPlaceholder)[i],
                   publisherName, extensionPath)],
         sep)

\* C3: in the written file every occurrence of the extension-path
\* placeholder of the template is replaced by the literal extensionPath when
\* that is non-empty, and is left untouched when it is empty.
C3_ExtensionPathSubstituted ==
    pc = "written" =>
        /\ Disjoint(TemplateUnderTest, ExtensionPlaceholder)
        /\ extensionPath # Empty =>
              WrittenContent = ExtensionPathReplacedBy(extensionPath)
        /\ extensionPath = Empty =>
              WrittenContent = ExtensionPathReplacedBy(ExtensionPlaceholder)

\* A template with two extension-path placeholders has been written with an
\* extension path that is itself the publisher placeholder.
C3_Witness ==
    /\ pc = "written"
    /\ extensionPath = PublisherPlaceholder /\ publisherName = Acme
    /\ Cardinality(Occurrences(TemplateUnderTest, ExtensionPlaceholder)) >= 2

\* C4: a run that repeats the arguments of the successful run before it
\* succeeds too and leaves every workflow file, the index and the set of
\* staged files as that run left them.
C4_Idempotent ==
    (Done /\ again) =>
        /\ result = "ok"
        /\ \A f \in Filenames :
              /\ fs[destPath(f)] = before.fs[destPath(f)]
              /\ fs[destPath(f)].kind = "file"
        /\ fs = before.fs
        /\ index = before.index
        /\ staged = Filenames
        /\ {f \in Filenames : before.index[f] # NoEntry} = staged

\* The second of two runs with a publisher and an extension path has ended.
C4_Witness ==
    /\ Done /\ again
    /\ result = "ok"
    /\ publisherName = Acme /\ extensionPath = PkgExt

\* C5 as stated: without a version-control CLI (git) on the search path the
\* run fails with ToolNotFound and writes nothing, whatever else is on the
\* path.
C5_AsStated ==
    (run > 0 /\ "git" \notin path) =>
        /\ NothingDone
        /\ Done => result = "ToolNotFound"

\* C5, amended: without the GitHub CLI (gh) on the search path the run fails
\* with ToolNotFound and writes nothing (no directory, no file, no index
\* entry), whatever the flags and whatever else is on the path.
C5_MissingGhStopsRun ==
    (run > 0 /\ "gh" \notin path) =>
        /\ NothingDone
        /\ pc \in {"LookPath", "done"}
        /\ Done => result = "ToolNotFound"

\* A run with an unknown flag, git but no gh on the path, has failed.
C5_Witness ==
    /\ Done
    /\ path = {"git"}
    /\ args = <<ArgBogus>>
    /\ result = "ToolNotFound"

\* C6 as stated: when gh is found and .git is absent, not a directory or not
\* inspectable, the run fails with NotARepository and writes nothing.
C6_AsStated ==
    (run > 0 /\ "gh" \in path /\ ~IsDir(before.fs[DotGit])) =>
        /\ NothingDone
        /\ Done => result = "NotARepository"

\* C6, amended: when gh is found and the working directory has no entry
\* .git, the run fails with NotARepository and writes nothing; a .git that is
\* there, be it a regular file or a link that cannot be followed, passes the
\* check.
C6_MissingGitDirStopsRun ==
    /\ (run > 0 /\ "gh" \in path /\ before.fs[DotGit].kind = "absent") =>
          /\ NothingDone
          /\ pc \in {"LookPath", "Stat", "done"}
          /\ Done => result = "NotARepository"
    /\ (Done /\ "gh" \in path /\ before.fs[DotGit].kind # "absent") =>
          result # "NotARepository"

\* A run with gh and git on the path and no .git has failed.
C6_Witness ==
    /\ Done
    /\ path = {"gh", "git"}
    /\ before.fs[DotGit] = Absent
    /\ result = "NotARepository"

\* .github/workflows cannot be created in the file system f: it is there and
\* not a directory, or it is missing and its parent is missing in a working
\* directory that is not writable, is not a directory, or is not writable.
CannotCreateWorkflowDir(f) ==
    \/ f[workflowDir].kind = "file"
    \/ /\ f[workflowDir].kind = "absent"
       /\ \/ f[DotGithub].kind = "file"
          \/ IsDir(f[DotGithub]) /\ ~f[DotGithub].w
          \/ f[DotGithub].kind = "absent" /\ ~f[Cwd].w

\* C7: when the run gets to creating .github/workflows and that cannot be
\* created, it fails with DirectoryCreateFailed and no workflow file is
\* written and nothing is staged.
C7_DirectoryCreateFailureStopsRun ==
    (run > 0 /\ PassedChecks /\ CannotCreateWorkflowDir(before.fs)) =>
        /\ NothingDone
        /\ pc \in {"LookPath", "Stat", "Parse", "MkdirAll", "done"}
        /\ Done => result = "DirectoryCreateFailed"

\* A run has failed at a .github that is not writable.
C7_Witness ==
    /\ Done
    /\ PassedChecks
    /\ before.fs[DotGithub] = Dir(FALSE)
    /\ result = "DirectoryCreateFailed"

\* C8 as stated: when the workflow directory is there and not writable, the
\* run fails with FileWriteFailed at its first iteration, none of the four
\* files is created and nothing is staged.
C8_AsStated ==
    (Done /\ PassedChecks /\ before.fs[workflowDir] = Dir(FALSE)) =>
        /\ result = "FileWriteFailed"
        /\ written = {}
        /\ staged = {}
        /\ Present(fs) = Present(before.fs)
        /\ index = before.index

\* No workflow file is there as a file the user may write to.
NoWritableWorkflowFile(f) ==
    \A g \in Filenames : ~(f[destPath(g)].kind = "file" /\ f[destPath(g)].w)

\* C8, amended: when the workflow directory is there and not writable and
\* none of the four files is already in it as a writable file, the run fails
\* with FileWriteFailed at its first iteration, whichever file that is; no
\* file is created or changed and nothing is staged.
C8_UnwritableDirStopsRun ==
    (Done /\ PassedChecks /\ before.fs[workflowDir] = Dir(FALSE)
          /\ NoWritableWorkflowFile(before.fs)) =>
        /\ result = "FileWriteFailed"
        /\ Cardinality(pending) = Cardinality(Filenames) - 1
        /\ NothingDone

\* A run has failed at its first write in an empty workflow directory that
\* is not writable.
C8_Witness ==
    /\ Done
    /\ PassedChecks
    /\ before.fs[workflowDir] = Dir(FALSE)
    /\ Present(before.fs) = {}
    /\ result = "FileWriteFailed"
    /\ filename = "auto-tag.yml"

\* C9: when git add fails for the file of an iteration, the run fails with
\* StageFailed there: the files of the iterations so far are on disk as
\* rendered, those of the iterations before are staged, the file itself and
\* those of later iterations are not staged by the run, and no later file is
\* written.
C9_StageFailureStopsRun ==
    \A f \in written :
        (Done /\ ~GitAddOk(path, fs, index, ignored, f)) =>
            /\ result = "StageFailed"
            /\ filename = f
            /\ staged = written \ {f}
            /\ pending = Filenames \ written
            /\ \A g \in written : fs[destPath(g)] = File(TRUE, Rendered(g))
            /\ \A g \in staged : index[g] = Rendered(g)
            /\ \A g \in Filenames \ staged : index[g] = before.index[g]
            /\ \A g \in pending : fs[destPath(g)] = before.fs[destPath(g)]

\* The add of the third file of a run has failed.
C9_Witness ==
    /\ Done
    /\ result = "StageFailed"
    /\ Cardinality(written) = 3
    /\ Cardinality(staged) = 2

\* C10: after a successful run every workflow file holds the rendering of
\* its template, which is the embedded one, with the parameters of this run,
\* whatever was in the file before.
C10_ContentFromTemplates ==
    /\ filesToInstall = Templates
    /\ (Done /\ result = "ok") =>
          \A f \in Filenames :
              fs[destPath(f)] = File(TRUE, Render(Templates[f], publisherName,
                                                  extensionPath))

\* A successful run has replaced the content an earlier run with other
\* parameters left, and the content of a file from before the tool ran.
C10_Witness ==
    /\ Done /\ result = "ok"
    /\ run = 2
    /\ publisherName = Empty
    /\ before.fs[destPath("release.yml")]
          = File(TRUE, Render(Templates["release.yml"], Acme, PkgExt))
    /\ fs[destPath("release.yml")] # before.fs[destPath("release.yml")]

\* The failure kinds of Run and the text of the error Run returns for each.
FailureKinds ==
    {"ToolNotFound", "NotARepository", "DirectoryCreateFailed",
     "FileWriteFailed", "StageFailed"}
MessageOf(kind) ==
    CASE kind = "ToolNotFound" -> "gh not installed"
      [] kind = "NotARepository" -> "not a git repo"
      [] kind = "DirectoryCreateFailed" -> "mkdir %s: %v"
      [] kind = "FileWriteFailed" -> "error writing file %s: %w"
      [] kind = "StageFailed" -> "failed to git add %s: %w"

\* l is a line "Error: <message>" for the failure kind.
IsErrorLineOf(l, kind) ==
    \E p \in Paths \cup {""} : l = ErrorLine(MessageOf(kind), p)
IsErrorLine(l) == \E kind \in FailureKinds : IsErrorLineOf(l, kind)

\* C11 as stated: the process exits with code 0 exactly when the procedure
\* succeeds; on any failure, whichever step fails, it exits with a non-zero
\* code and exactly one line "Error: <message>" describing the failure kind is
\* written to standard error.
C11_AsStated ==
    Done =>
        /\ exitCode = 0 <=> result = "ok"
        /\ result # "ok" =>
              /\ exitCode # 0
              /\ Len(stderr) = 1
              /\ IsErrorLine(stderr[1])

\* C11: the process exits with code 0 when the procedure succeeds, with
\* nothing on standard error, and also when -h or -help ends it inside
\* flag.Parse, with the usage text on standard error; when the procedure fails
\* with one of the five failure kinds it exits with code 1 and exactly one
\* line "Error: <message>" of that kind is on standard error; when flag.Parse
\* rejects the command line it exits with code 2 and standard error holds the
\* flag package's message and the usage text, with no "Error:" line.
C11_ExitCodeAndErrorLine ==
    Done =>
        /\ exitCode = 0 <=> result \in {"ok", "FlagHelp"}
        /\ result = "ok" => stderr = << >>
        /\ result \in FailureKinds =>
              /\ exitCode = 1
              /\ Len(stderr) = 1
              /\ IsErrorLineOf(stderr[1], result)
        /\ result = "FlagHelp" => stderr = Usage
        /\ result = "FlagError" =>
              /\ exitCode = 2
              /\ Len(stderr) = 1 + Len(Usage)
              /\ SubSeq(stderr, 2, Len(stderr)) = Usage
              /\ \A i \in 1..Len(stderr) : ~IsErrorLine(stderr[i])

\* A run has failed at git add in the loop and the process has exited with
\* code 1 and one line on standard error.
C11_Witness ==
    /\ Done
    /\ result = "StageFailed"
    /\ written # {}
    /\ exitCode = 1
    /\ Len(stderr) = 1

\* The command line consists of occurrences of the tool's flags only.
OnlyFlagOccurrences == \A i \in 1..Len(cmdline) : cmdline[i].kind = "flag"

\* The value of the last occurrence in items of a flag among names, the empty
\* text when there is none.
LastValue(items, names) ==
    LET at == {i \in 1..Len(items) : items[i].name \in names} IN
    IF at = {} THEN Empty
    ELSE items[CHOOSE i \in at : \A j \in at : j <= i].value

\* C12: for every command line that is a sequence of flag occurrences,
\* publisherName is the value of the last occurrence of any of -p, --publisher,
\* --ovsx-publisher and extensionPath the value of the last occurrence of any
\* of -e, --extension-path, --path, --dir, whichever alias and form each
\* occurrence uses; a parameter with no occurrence is the empty text.
C12_LastOccurrenceWins ==
    (pc \in {"MkdirAll", "done"} /\ OnlyFlagOccurrences) =>
        /\ pc = "MkdirAll"
        /\ flagSet.args = << >>
        /\ publisherName = LastValue(cmdline, PublisherFlags)
        /\ extensionPath = LastValue(cmdline, ExtensionPathFlags)

\* Two aliases of the publisher flag with different values have been parsed,
\* the later value looking like a flag; no extension path was given.
C12_Witness ==
    /\ pc = "MkdirAll"
    /\ Len(cmdline) = 2
    /\ OnlyFlagOccurrences
    /\ cmdline[1].name = <<"p">> /\ cmdline[1].value = Acme
    /\ cmdline[2].name \in PublisherFlags \ {<<"p">>}
    /\ cmdline[2].value = ArgE
    /\ publisherName = ArgE
    /\ extensionPath = Empty

\* The positions in standard output of the two reminders and of the first line
\* of the instructions for committing.
PublisherReminderAt ==
    {i \in 1..Len(stdout) : \E n \in 1..4 : stdout[i] = PublisherReminder(n)}
ExtensionPathReminderAt ==
    {i \in 1..Len(stdout) :
        \E n \in 1..4 : stdout[i] = ExtensionPathReminder(n)}
CommitLinesAt ==
    {i \in 1..Len(stdout) :
        \E n \in 1..4 :
            SubSeq(stdout, i, Len(stdout)) = CommitLines(n)}

\* C13: omitting a parameter is never an error, and on a successful run the
\* summary contains the publisher reminder if and only if publisherName is
\* empty and the extension-path reminder if and only if extensionPath is
\* empty; the instructions for committing the staged changes are the last
\* lines of the output in every case, after the reminders.
C13_RemindersForUnsetParameters ==
    /\ (Done /\ args \in {<< >>, <<ArgP, Acme>>, <<ArgE, PkgExt>>}) =>
          result \notin {"FlagError", "FlagHelp"}
    /\ (Done /\ result = "ok") =>
          /\ PublisherReminderAt # {} <=> publisherName = Empty
          /\ ExtensionPathReminderAt # {} <=> extensionPath = Empty
          /\ Cardinality(PublisherReminderAt) <= 1
          /\ Cardinality(ExtensionPathReminderAt) <= 1
          /\ Cardinality(CommitLinesAt) = 1
          /\ \A c \in CommitLinesAt :
                /\ \A r \in PublisherReminderAt \cup ExtensionPathReminderAt :
                      r < c
                /\ stdout[c].step =
                      2 + Cardinality(PublisherReminderAt)
                        + Cardinality(ExtensionPathReminderAt)

\* A run with a publisher and without an extension path has succeeded: the
\* summary holds the extension-path reminder as step 2 and no publisher
\* reminder.
C13_Witness ==
    /\ Done /\ result = "ok"
    /\ publisherName = Acme
    /\ extensionPath = Empty
    /\ PublisherReminderAt = {}
    /\ \E i \in ExtensionPathReminderAt : stdout[i] = ExtensionPathReminder(2)

\* The argument s has the shape of a flag: a minus sign or two and a name.
FlagShaped(s) ==
    /\ Len(s) >= 2
    /\ s[1] = "-"
    /\ s # <<"-", "-">>
    /\ FlagText(s) # Empty
    /\ FlagText(s)[1] \notin {"-", "="}

\* The i-th argument of a is a flag the tool does not have, and everything
\* before it is flags of the tool with their values.
UnrecognizedFlagAt(a, i) ==
    /\ FlagShaped(a[i])
    /\ FlagName(a[i]) \notin PublisherFlags \cup ExtensionPathFlags
    /\ Parse(SubSeq(a, 1, i - 1)).status = "ok"
    /\ Parse(SubSeq(a, 1, i - 1)).args = << >>
    /\ \A j \in 1..(i - 1) : a[j] # <<"-", "-">>

\* Both preconditions of the run hold: gh is found and .git is there.
PreconditionsHold ==
    /\ LookPathOk(path, "gh")
    /\ ~IsNotExist(StatErr(before.fs, DotGit))

\* C14: when the command line holds an unrecognized flag where a flag is
\* expected and both preconditions hold, the run ends at flag parsing: it
\* never gets to the directory creation, the workflow directory is not
\* created, no workflow file is written and nothing is staged.
C14_UnrecognizedFlagStopsRun ==
    (pc # "idle" /\ PreconditionsHold
        /\ \E i \in 1..Len(args) : UnrecognizedFlagAt(args, i)) =>
        /\ pc \in {"LookPath", "Stat", "Parse", "done"}
        /\ Done => result \in {"FlagError", "FlagHelp"}
        /\ NothingDone
        /\ attempts = NoAttempts

\* A run whose command line holds a flag of the tool and then a flag the tool
\* does not have has ended at flag parsing, in a repository where a run
\* without that flag succeeds.
C14_Witness ==
    /\ Done
    /\ args = <<ArgP, Acme, ArgBogus>>
    /\ PreconditionsHold
    /\ FreshRepository /\ {"gh", "git"} \subseteq path /\ ignored = {}
    /\ result = "FlagError"
    /\ exitCode = 2

\* C15: when the write of the file of an iteration fails, the run fails with
\* FileWriteFailed there and the loop is over: the files of the iterations
\* before are on disk as rendered and staged, the file itself is neither
\* changed nor staged, git add is not called for it, and no file of a later
\* iteration is written or staged.
C15_WriteFailureStopsRun ==
    (filename \in Filenames \ written) =>
        /\ Done
        /\ result = "FileWriteFailed"
        /\ ~WriteFileOk(before.fs, destPath(filename))
        /\ staged = written
        /\ pending = Filenames \ (written \cup {filename})
        /\ \A g \in written :
              /\ fs[destPath(g)] = File(TRUE, Rendered(g))
              /\ index[g] = Rendered(g)
        /\ \A g \in pending \cup {filename} :
              /\ fs[destPath(g)] = before.fs[destPath(g)]
              /\ index[g] = before.index[g]
              /\ attempts.add[g] = 0
        /\ \A g \in pending : attempts.write[g] = 0

\* The write of the third file of a run has failed, after two files were
\* written and staged.
C15_Witness ==
    /\ Done
    /\ result = "FileWriteFailed"
    /\ Cardinality(written) = 2
    /\ staged = written
    /\ Cardinality(pending) = 1

\* A step of a run that stages a file stages the file just written, and
\* that one only, from the state right after its write.
StagesOnlyTheFileJustWritten ==
    (run' = run /\ staged' # staged) =>
        /\ pc = "gitAdd"
        /\ written \ staged = {filename}
        /\ staged' = staged \cup {filename}
        /\ written' = written
        /\ index' = [index EXCEPT ![filename] = fs[destPath(filename)].data]
        /\ fs' = fs

\* A step of a run that writes a file starts from a state in which every
\* file written so far is staged.
WritesOnlyWhenAllStaged ==
    (run' = run /\ written' # written) =>
        /\ staged = written
        /\ staged' = staged
        /\ \E f \in Filenames \ written : written' = written \cup {f}

\* C16: in every state of a run every workflow file the run has staged was
\* written by the run before, and at most one file is written and not yet
\* staged: the file of the current iteration; a file is staged only by the
\* step directly after its own write, before the next file is written.
C16_StagedAfterOwnWrite ==
    /\ [](/\ staged \subseteq written
          /\ Cardinality(written \ staged) <= 1
          /\ written \ staged \subseteq {filename}
          /\ pc = "range" => staged = written
          /\ pc = "gitAdd" => written \ staged = {filename})
    /\ [][StagesOnlyTheFileJustWritten]_vars
    /\ [][WritesOnlyWhenAllStaged]_vars

\* The third file of a run is written and not yet staged; the two before it
\* are staged.
C16_Witness ==
    /\ pc = "gitAdd"
    /\ Cardinality(written) = 3
    /\ Cardinality(staged) = 2
    /\ written \ staged = {filename}

\* The run got to the loop over the four files.
ReachedLoop == Done /\ result \in {"ok", "FileWriteFailed", "StageFailed"}

\* Where the loop of this run ends when it visits the files in the order
\* sync, release, auto-tag, check-version.
InKeyOrder ==
    RunLoop(KeyOrder,
            [result |-> "running",
             fs |-> MkdirAll(before.fs, workflowDir).fs,
             index |-> before.index, written |-> {}, staged |-> {}])

\* The run has ended as the loop in the order of InKeyOrder ends.
EndsAsInKeyOrder ==
    /\ result = InKeyOrder.result
    /\ fs = InKeyOrder.fs
    /\ index = InKeyOrder.index
    /\ written = InKeyOrder.written
    /\ staged = InKeyOrder.staged

\* C17 as stated: whatever the iteration order, with the same parameters and
\* the same environment, also one in which a write or a git add fails, the
\* run ends with the same outcome, the same files with the same contents and
\* the same staged files: every run ends as the run in one fixed order does.
C17_AsStated == ReachedLoop => EndsAsInKeyOrder

\* C17, amended: when no write and no git add fails, the iteration order is
\* not observable in what the run leaves: if the run succeeds in one order it
\* succeeds in every order, with the same files with the same contents and
\* the same staged files.
C17_OrderUnobservableOnSuccess ==
    (ReachedLoop /\ (result = "ok" \/ InKeyOrder.result = "ok")) =>
        EndsAsInKeyOrder

\* The position in standard output of the line about the first file written.
FirstCreatedAt ==
    {i \in 1..Len(stdout) :
        /\ stdout[i].format = "Created %s"
        /\ \A j \in 1..(i - 1) : stdout[j].format # "Created %s"}

\* A run that visited check-version.yml first and sync.yml last has succeeded.
C17_Witness ==
    /\ Done /\ result = "ok"
    /\ \E i \in FirstCreatedAt : stdout[i].path = destPath("check-version.yml")
    /\ filename = "sync.yml"
    /\ publisherName = Acme

\* The template with every extension-path placeholder replaced by
\* extensionPath.
ExtensionPathInserted ==
    Join(Segments(TemplateUnderTest, ExtensionPlaceholder), extensionPath)

\* Inserting extensionPath makes no new publisher placeholder.
NoNewPublisherPlaceholder ==
    Cardinality(Occurrences(ExtensionPathInserted, PublisherPlaceholder))
        = Cardinality(Occurrences(TemplateUnderTest, PublisherPlaceholder))

\* The content written when the extension path is substituted first.
ExtensionPathFirst ==
    ReplacePublisher(ReplaceExtensionPath(TemplateUnderTest, extensionPath),
                     publisherName)

\* C18 as stated: for every template and every pair of non-empty
\* publisherName and extensionPath the written content is the same whichever
\* placeholder is substituted first, also when a value holds the token of the
\* other placeholder.
C18_AsStated ==
    (pc = "written" /\ publisherName # Empty /\ extensionPath # Empty) =>
        WrittenContent = ExtensionPathFirst

\* C18, amended: for every template and every pair of non-empty
\* publisherName and extensionPath such that inserting publisherName makes no
\* new extension-path placeholder and inserting extensionPath makes no new
\* publisher placeholder, the written content is the same whichever
\* placeholder is substituted first.
C18_OrderOfSubstitutions ==
    (pc = "written" /\ publisherName # Empty /\ extensionPath # Empty
        /\ NoNewExtensionPlaceholder /\ NoNewPublisherPlaceholder) =>
        WrittenContent = ExtensionPathFirst

\* A template that holds both placeholders has been written with two plain
\* values, and with the result of either order of the substitutions.
C18_Witness ==
    /\ pc = "written"
    /\ publisherName = Acme /\ extensionPath = PkgExt
    /\ Occurrences(TemplateUnderTest, PublisherPlaceholder) # {}
    /\ Occurrences(TemplateUnderTest, ExtensionPlaceholder) # {}
    /\ NoNewExtensionPlaceholder /\ NoNewPublisherPlaceholder
    /\ WrittenContent = ExtensionPathFirst
    /\ WrittenContent # TemplateUnderTest

\* A step after the run has ended touches neither the repository nor the
\* count of calls, unless it starts the next run.
NothingAfterTheEnd ==
    (Done /\ run' = run) =>
        /\ fs' = fs
        /\ index' = index
        /\ attempts' = attempts

\* A step of a run makes at most one call, and when the call fails the run is
\* over in the next state.
OneCallPerStep ==
    (run' = run) =>
        /\ attempts'.mkdir \in {attempts.mkdir, attempts.mkdir + 1}
        /\ \A f \in Filenames :
              /\ attempts'.write[f] - attempts.write[f] \in {0, 1}
              /\ attempts'.add[f] - attempts.add[f] \in {0, 1}
              /\ (attempts'.write[f] > attempts.write[f] /\ f \notin written')
                    => pc' = "done" /\ result' = "FileWriteFailed"
              /\ (attempts'.add[f] > attempts.add[f] /\ f \notin staged')
                    => pc' = "done" /\ result' = "StageFailed"
        /\ (attempts'.mkdir > attempts.mkdir /\ ~IsDir(fs'[workflowDir]))
              => pc' = "done" /\ result' = "DirectoryCreateFailed"

\* C19: within one run no operation is retried and the first failure ends
\* the run: the directory creation is called at most once, each of the four
\* files is written at most once and staged at most once, a call that fails
\* is the last call of the run, and after the run has ended nothing more is
\* written or staged.
C19_NoRetryAbortOnFirstFailure ==
    /\ [](/\ attempts.mkdir <= 1
          /\ \A f \in Filenames :
                /\ attempts.write[f] <= 1
                /\ attempts.add[f] <= attempts.write[f]
                /\ f \in written => attempts.write[f] = 1
                /\ f \in staged => attempts.add[f] = 1
          /\ (Done /\ result \in FailureKinds) =>
                Cardinality({f \in Filenames :
                                attempts.write[f] = 1 /\ f \notin written})
                  + Cardinality({f \in Filenames :
                                    attempts.add[f] = 1 /\ f \notin staged})
                  <= 1)
    /\ [][OneCallPerStep]_vars
    /\ [][NothingAfterTheEnd]_vars

\* A run has ended at a write that failed after two files were written and
\* staged: eight calls were made, the last one a write, each once.
C19_Witness ==
    /\ Done
    /\ result = "FileWriteFailed"
    /\ attempts.mkdir = 1
    /\ Cardinality({f \in Filenames : attempts.write[f] = 1}) = 3
    /\ Cardinality({f \in Filenames : attempts.add[f] = 1}) = 2
    /\ run = 1

\* C20: the check for the tool comes before the check for the repository and
\* both come before any directory creation, write or stage: a run is past the
\* first check only when gh was found and past the second only when .git is
\* there too, and when gh is missing and the working directory is not a
\* repository either, the run fails with ToolNotFound, not NotARepository.
C20_ChecksInOrder ==
    /\ pc \in {"Stat", "Parse", "MkdirAll", "range", "gitAdd"} =>
          LookPathOk(path, "gh")
    /\ (pc \in {"Parse", "MkdirAll", "range", "gitAdd"}
           \/ attempts # NoAttempts \/ fs # before.fs
           \/ index # before.index) =>
          PreconditionsHold
    /\ (Done /\ result = "NotARepository") => LookPathOk(path, "gh")
    /\ (Done /\ ~LookPathOk(path, "gh")
             /\ IsNotExist(StatErr(before.fs, DotGit))) =>
          /\ result = "ToolNotFound"
          /\ stdout = Banner \o ToolMissingLines
          /\ stderr = <<ErrorLine("gh not installed", "")>>
          /\ NothingDone
          /\ attempts = NoAttempts

\* A run without gh on the search path, in a directory without .git, has
\* failed with ToolNotFound.
C20_Witness ==
    /\ Done
    /\ "gh" \notin path
    /\ before.fs[DotGit] = Absent
    /\ result = "ToolNotFound"
    /\ exitCode = 1

\* The paths and index entries a run may touch as the claim lists them: the
\* workflow directory and the four files.
ListedPaths == {workflowDir} \cup DestPaths

\* Every index entry that is not of the four files is as before the run.
OtherEntriesUnchanged == \A g \in OtherPaths : index[g] = before.index[g]

\* C21 as stated: a run creates, modifies or stages no path other than the
\* directory .github/workflows and the four files in it; every other file and
\* every other index entry is unchanged by every run, successful or failed.
C21_AsStated ==
    /\ \A p \in Paths \ ListedPaths : fs[p] = before.fs[p]
    /\ OtherEntriesUnchanged

\* C21, amended: a run creates, modifies or stages no path other than the
\* directory .github, which it creates when it is missing, the directory
\* .github/workflows and the four files in it: a .github that is there, every
\* other file, also one in .github/workflows/, and every other index entry
\* is unchanged by every run, successful or failed.
C21_FrameOfRun ==
    /\ \A p \in Paths \ (ListedPaths \cup {DotGithub}) : fs[p] = before.fs[p]
    /\ \/ fs[DotGithub] = before.fs[DotGithub]
       \/ before.fs[DotGithub] = Absent /\ fs[DotGithub] = Dir(TRUE)
    /\ Exists(before.fs[workflowDir]) => fs[workflowDir] = before.fs[workflowDir]
    /\ OtherEntriesUnchanged

\* A run has succeeded in a repository that has a workflow of its own in
\* .github/workflows/ and a file at the root, both neither committed nor
\* staged.
C21_Witness ==
    /\ Done /\ result = "ok"
    /\ before.fs[OtherWorkflow] = File(TRUE, Junk)
    /\ before.fs[Readme] = File(TRUE, Junk)
    /\ before.index = EmptyIndex
    /\ staged = Filenames
    /\ run = 1

\* Both concurrent runs have succeeded.
BothSucceeded ==
    \A p \in Procs : procs[p].pc = "done" /\ procs[p].result = "ok"

\* The file f holds what the run that wrote it last rendered.
LastWriterWins(f) ==
    /\ writes.last[f] \in Procs
    /\ fs[destPath(f)] = File(TRUE, RenderedBy(writes.last[f], f))

\* The index holds for f what is in the file.
StagedAsOnDisk(f) ==
    /\ fs[destPath(f)].kind = "file"
    /\ index[f] = fs[destPath(f)].data

SummaryPrinted ==
    \E i \in 1..Len(stdout) : stdout[i] = Text("   Setup Complete!                        ")

\* The calls of the run that failed: a write that left its file unwritten, an
\* add that left its file unstaged, a directory creation that left no
\* directory.
FailedCalls ==
    Cardinality({f \in Filenames : attempts.write[f] = 1 /\ f \notin written})
      + Cardinality({f \in Filenames : attempts.add[f] = 1 /\ f \notin staged})
      + (IF attempts.mkdir = 1 /\ ~IsDir(fs[workflowDir]) THEN 1 ELSE 0)

\* The run ended with the failure kind of the first step that failed: every
\* step before it succeeded and that step could not.
KindOfFirstFailure ==
    /\ result = "ToolNotFound" => ~LookPathOk(path, "gh")
    /\ result # "ToolNotFound" => LookPathOk(path, "gh")
    /\ result = "NotARepository" => IsNotExist(StatErr(before.fs, DotGit))
    /\ result \notin {"ToolNotFound", "NotARepository"} =>
          ~IsNotExist(StatErr(before.fs, DotGit))
    /\ result \in {"DirectoryCreateFailed", "FileWriteFailed", "StageFailed",
                   "ok"} => Parse(args).status = "ok"
    /\ result = "DirectoryCreateFailed" =>
          ~MkdirAll(before.fs, workflowDir).ok /\ attempts.write = NoAttempts.write
    /\ result \in {"FileWriteFailed", "StageFailed", "ok"} =>
          /\ MkdirAll(before.fs, workflowDir).ok
          /\ \A f \in staged : f \in written /\ attempts.add[f] = 1
    /\ result = "FileWriteFailed" =>
          /\ filename \notin written
          /\ ~WriteFileOk(fs, destPath(filename))
          /\ staged = written
    /\ result = "StageFailed" =>
          /\ written \ staged = {filename}
          /\ ~GitAddOk(path, fs, index, ignored, filename)
    /\ result \in FailureKinds => FailedCalls = (IF result \in
          {"DirectoryCreateFailed", "FileWriteFailed", "StageFailed"}
          THEN 1 ELSE 0)

\* The run ended in success after exactly four iterations, each a write and
\* an add.
FourIterations ==
    /\ written = Filenames
    /\ staged = Filenames
    /\ \A f \in Filenames : attempts.write[f] = 1 /\ attempts.add[f] = 1
    /\ FailedCalls = 0

\* C23 as stated: every run terminates, and it ends either in success after
\* exactly four write-and-stage iterations or in exactly one failure, of one
\* of the five kinds, which is the kind of the first step that failed; the
\* summary is printed only in the success case.
C23_AsStated ==
    /\ (pc \notin {"idle", "done"}) ~> Done
    /\ [](Done =>
            /\ result \in {"ok"} \cup FailureKinds
            /\ result = "ok" => FourIterations
            /\ KindOfFirstFailure)
    /\ [](SummaryPrinted => Done /\ result = "ok")

\* C23, amended: every run terminates, and it ends in success after exactly
\* four write-and-stage iterations, or in exactly one failure, of one of the
\* five kinds, which is the kind of the first step that failed, or inside
\* flag.Parse, which ends the process on a command line it rejects and on -h
\* or -help, after both checks and before the directory creation; the
\* summary is printed in the success case only.
C23_Terminates ==
    /\ (pc \notin {"idle", "done"}) ~> Done
    /\ [](Done =>
            /\ result \in {"ok", "FlagError", "FlagHelp"} \cup FailureKinds
            /\ result = "ok" => FourIterations
            /\ result \in {"FlagError", "FlagHelp"} =>
                  /\ Parse(args).status # "ok"
                  /\ attempts = NoAttempts
            /\ KindOfFirstFailure)
    /\ [](SummaryPrinted <=> Done /\ result = "ok")

\* A second run has ended in success after four iterations, with the summary
\* printed.
C23_Witness ==
    /\ Done /\ result = "ok"
    /\ run = 2
    /\ FourIterations
    /\ SummaryPrinted

====
